---- MODULE Spec2Model ----
(***************************************************************************)
(* NoteCap (src/main.ts): an Obsidian plugin that turns a photographed     *)
(* page of handwriting into a note.  The module models                     *)
(*   - the pure text functions (cleanupText, formatTag, generateTags,      *)
(*     calculateSimilarity) as operators over strings, a string being a    *)
(*     sequence of one-character strings;                                  *)
(*   - the plugin object (settings, scheduler, worker, isInitialized), the *)
(*     asynchronous methods setupOCR, onunload and processImage, one       *)
(*     action per suspension point (await), and the vault they act on.     *)
(***************************************************************************)
EXTENDS Integers, Sequences, FiniteSets, TLC

(***************************************************************************)
(* Strings and JavaScript string primitives                                *)
(***************************************************************************)

\* A string literal as the sequence of its characters.
Chars(str) == [i \in 1..Len(str) |-> SubSeq(str, i, i)]

Range(s) == {s[i] : i \in 1..Len(s)}

UpperChars == Chars("ABCDEFGHIJKLMNOPQRSTUVWXYZ")

LowerChars == Chars("abcdefghijklmnopqrstuvwxyz")

DigitChars == Chars("0123456789")

\* The printable ASCII characters that are neither letters nor digits (all
\* but the grave accent, which a TLA+ string cannot hold and no input uses).
SymbolChars == Chars(" !#$%&'()*+,-./:;<=>?@[]^_{|}~") \o <<"\"", "\\">>

\* \x20-\x7E, the range kept by cleanupText.
PrintableAscii ==
    Range(UpperChars) \cup Range(LowerChars) \cup Range(DigitChars)
        \cup Range(SymbolChars)

\* The characters of the model's inputs that the regular expression class \s
\* matches: space, line feed, tab.
WhiteSpace == {" ", "\n", "\t"}

\* String.prototype.toLowerCase, character by character.
LowerChar(c) ==
    IF \E i \in 1..26 : UpperChars[i] = c
    THEN LowerChars[CHOOSE i \in 1..26 : UpperChars[i] = c]
    ELSE c

toLowerCase(s) == [i \in 1..Len(s) |-> LowerChar(s[i])]

\* s.replace(/[class]/g, by): every character of the class becomes by.
ReplaceEach(s, class, by) ==
    [i \in 1..Len(s) |-> IF s[i] \in class THEN by ELSE s[i]]

\* s.replace(/[^class]/g, ""): only the characters of the class are kept.
KeepOnly(s, class) == SelectSeq(s, LAMBDA c : c \in class)

Min(S) == CHOOSE i \in S : \A j \in S : i <= j

Max(S) == CHOOSE i \in S : \A j \in S : j <= i

\* words.join(sep)
RECURSIVE join(_, _)
join(words, sep) ==
    IF words = <<>> THEN <<>>
    ELSE IF Len(words) = 1 THEN words[1]
         ELSE words[1] \o sep \o join(Tail(words), sep)

\* s.split(/[class]+/) from position from on: the pieces between the
\* maximal runs of characters of the class.  The empty string gives one
\* empty piece; a run at the start or at the end gives an empty first or
\* last piece.
RECURSIVE SplitRunsFrom(_, _, _)
SplitRunsFrom(s, class, from) ==
    LET hits == { i \in from..Len(s) : s[i] \in class }
    IN  IF hits = {} THEN <<SubSeq(s, from, Len(s))>>
        ELSE LET start == Min(hits)
                 after == { i \in start..Len(s) : s[i] \notin class }
                 next  == IF after = {} THEN Len(s) + 1 ELSE Min(after)
             IN  <<SubSeq(s, from, start - 1)>>
                     \o SplitRunsFrom(s, class, next)

\* s.split(/\s+/)
splitWhitespace(s) == SplitRunsFrom(s, WhiteSpace, 1)

\* s.split(/\n+/)
splitLines(s) == SplitRunsFrom(s, {"\n"}, 1)

\* s.replace(/[class]+/g, by): every maximal run of characters of the class
\* becomes the single string by.
ReplaceRuns(s, class, by) == join(SplitRunsFrom(s, class, 1), by)

\* s.replace(/([class])+/g, "$1"): every maximal run of characters of the
\* class becomes the last character of the run (the last capture of group 1).
CollapseRuns(s, class) ==
    LET kept == { i \in 1..Len(s) :
                    ~(s[i] \in class /\ i < Len(s) /\ s[i + 1] \in class) }
    IN  [k \in 1..Cardinality(kept) |->
            s[CHOOSE i \in kept : Cardinality({ j \in kept : j <= i }) = k]]

\* String.prototype.trim
trim(s) ==
    LET inked == { i \in 1..Len(s) : s[i] \notin WhiteSpace }
    IN  IF inked = {} THEN <<>> ELSE SubSeq(s, Min(inked), Max(inked))

\* Array.from(new Set(...)) over the additions made in the order of seq:
\* the elements of seq in the order of their first occurrence.
RECURSIVE Dedup(_, _)
Dedup(seq, acc) ==
    IF seq = <<>> THEN acc
    ELSE Dedup(Tail(seq),
               IF Head(seq) \in Range(acc) THEN acc ELSE Append(acc, Head(seq)))

(***************************************************************************)
(* cleanupText (src/main.ts 587-602)                                       *)
(***************************************************************************)

Punctuation == {".", ",", "!", "?", ";", ":"}

cleanupText(text) ==
    LET s1 == CollapseRuns(text, Punctuation)
        s2 == ReplaceEach(s1, {"|"}, "I")
        s3 == ReplaceEach(s2, {"1", "I", "l"}, "l")
        s4 == ReplaceEach(s3, {"0", "O"}, "o")
        s5 == KeepOnly(s4, PrintableAscii \cup {"\n"})
        s6 == ReplaceRuns(s5, WhiteSpace, <<" ">>)
    IN  trim(s6)

(***************************************************************************)
(* formatTag (src/main.ts 719-726)                                         *)
(***************************************************************************)

TagChars == Range(LowerChars) \cup Range(DigitChars) \cup {"-"}

\* .replace(/^-|-$/g, ""): one hyphen at the start and one at the end.
StripEdgeHyphens(s) ==
    LET a == IF s # <<>> /\ Head(s) = "-" THEN Tail(s) ELSE s
    IN  IF a # <<>> /\ a[Len(a)] = "-" THEN SubSeq(a, 1, Len(a) - 1) ELSE a

formatTag(tag) ==
    LET s1 == toLowerCase(tag)
        s2 == ReplaceRuns(s1, WhiteSpace, <<"-">>)
        s3 == KeepOnly(s2, TagChars)
        s4 == ReplaceRuns(s3, {"-"}, <<"-">>)
    IN  StripEdgeHyphens(s4)

(***************************************************************************)
(* isCommonWord (src/main.ts 637-717)                                      *)
(***************************************************************************)

StopWords ==
    {Chars(w) : w \in {
        "the", "and", "that", "have", "for", "not", "with", "you", "this",
        "but", "his", "from", "they", "say", "her", "she", "will", "one",
        "all", "would", "there", "their", "what", "out", "about", "who", "get",
        "which", "when", "make", "can", "like", "time", "just", "him", "know",
        "take", "into", "year", "your", "good", "some", "could", "them", "see",
        "other", "than", "then", "now", "look", "only", "come", "its", "over",
        "think", "also", "back", "after", "use", "two", "how", "our", "work",
        "first", "well", "way", "even", "new", "want", "because", "any",
        "these", "give", "day", "most", "cant"}}

isCommonWord(word) == toLowerCase(word) \in StopWords

(***************************************************************************)
(* generateTags (src/main.ts 727-809)                                      *)
(***************************************************************************)

\* The local list commonWords of generateTags, shorter than StopWords.
commonWords ==
    {Chars(w) : w \in {
        "the", "and", "that", "have", "for", "not", "with", "you", "this",
        "but", "his", "from", "they", "say", "her", "she", "will", "one",
        "all", "would", "there", "their", "what", "out", "about", "who", "get",
        "which", "when", "make", "can", "like", "time", "just", "him", "know",
        "take"}}

AlphaNum == Range(LowerChars) \cup Range(DigitChars)

\* .filter((word) => word.length > 3)
LongWordsShort(ws) == SelectSeq(ws, LAMBDA w : Len(w) > 2)

LongWords(ws) == SelectSeq(ws, LAMBDA w : Len(w) > 3)

\* text.toLowerCase().split(/\s+/).map(strip non-alphanumerics).filter(...)
TagWords(text) ==
    LET pieces == splitWhitespace(toLowerCase(text))
    IN  LongWords([i \in 1..Len(pieces) |-> KeepOnly(pieces[i], AlphaNum)])

\* The additions the first loop makes for position i, in their order.
PhraseCandidates(words, i) ==
    LET singleWord == formatTag(words[i])
        twoWords   == formatTag(words[i] \o <<" ">> \o words[i + 1])
        threeWords == formatTag(words[i] \o <<" ">> \o words[i + 1]
                                   \o <<" ">> \o words[i + 2])
    IN  (IF Len(singleWord) > 3 /\ ~isCommonWord(singleWord)
         THEN <<singleWord>> ELSE <<>>)
        \o (IF i < Len(words) /\ Len(twoWords) > 3
            THEN <<twoWords>> ELSE <<>>)
        \o (IF i < Len(words) - 1 /\ Len(threeWords) > 3
            THEN <<threeWords>> ELSE <<>>)

RECURSIVE PhraseLoop(_, _)
PhraseLoop(words, i) ==
    IF i > Len(words) THEN <<>>
    ELSE PhraseCandidates(words, i) \o PhraseLoop(words, i + 1)

\* The second loop: every word that is not in commonWords.
BareWords(words) == SelectSeq(words, LAMBDA w : w \notin commonWords)

generateTags(text) ==
    LET words == TagWords(text)
    IN  Dedup(PhraseLoop(words, 1) \o BareWords(words), <<>>)

(***************************************************************************)
(* calculateSimilarity (src/main.ts 831-839)                               *)
(***************************************************************************)

\* new Set(text.toLowerCase().split(/\s+/))
WordSet(text) == Range(splitWhitespace(toLowerCase(text)))

UnionOfFirst(words1, words2) == words1

UnionOf(words1, words2) == words1 \cup words2

\* The quotient intersection.size / union.size, kept as the pair of its
\* operands; union.size is never 0 because split never returns no piece.
calculateSimilarity(text1, text2) ==
    LET words1 == WordSet(text1)
        words2 == WordSet(text2)
        intersection == {x \in words1 : x \in words2}
        union == UnionOf(words1, words2)
    IN  [num |-> Cardinality(intersection), den |-> Cardinality(union)]

\* Equality and order of two quotients of naturals with positive divisors.
RatEq(p, q) == p.num * q.den = q.num * p.den

RatAtLeast(p, q) == p.num * q.den >= q.num * p.den

RatGreater(p, q) == p.num * q.den > q.num * p.den

(***************************************************************************)
(* parseLLMResponse (src/main.ts 554-577)                                  *)
(***************************************************************************)

startsWith(s, prefix) ==
    Len(s) >= Len(prefix) /\ SubSeq(s, 1, Len(prefix)) = prefix

\* s.split(sep) for a separator string, from position from on: the pieces
\* between its occurrences, found from left to right.
RECURSIVE SplitOnFrom(_, _, _)
SplitOnFrom(s, sep, from) ==
    LET hits == { i \in from..(Len(s) - Len(sep) + 1) :
                    SubSeq(s, i, i + Len(sep) - 1) = sep }
    IN  IF hits = {} THEN <<SubSeq(s, from, Len(s))>>
        ELSE <<SubSeq(s, from, Min(hits) - 1)>>
                 \o SplitOnFrom(s, sep, Min(hits) + Len(sep))

SplitOn(s, sep) == SplitOnFrom(s, sep, 1)

\* section.replace(prefix, "") for a section that starts with prefix: the
\* first occurrence is the one at the start.
DropPrefix(s, prefix) == SubSeq(s, Len(prefix) + 1, Len(s))

\* The items trimmed but not lowercased.
ParseTagsKeepCase(section) ==
    LET items == SplitOn(trim(DropPrefix(section, Chars("TAGS:"))), <<",">>)
        mapped == [i \in 1..Len(items) |-> trim(items[i])]
    IN  SelectSeq(mapped, LAMBDA tag : Len(tag) > 0)

ParseTags(section) ==
    LET items == SplitOn(trim(DropPrefix(section, Chars("TAGS:"))), <<",">>)
        mapped == [i \in 1..Len(items) |-> toLowerCase(trim(items[i]))]
    IN  SelectSeq(mapped, LAMBDA tag : Len(tag) > 0)

\* The loop over the sections: a later section with the same prefix
\* overwrites the field.  hasTags tells result.tags from undefined.
RECURSIVE ParseSections(_, _)
ParseSections(sections, result) ==
    IF sections = <<>> THEN result
    ELSE LET section == Head(sections)
             next == IF startsWith(section, Chars("TEXT:"))
                     THEN [result EXCEPT
                             !.text = trim(DropPrefix(section, Chars("TEXT:")))]
                     ELSE IF startsWith(section, Chars("TAGS:"))
                     THEN [result EXCEPT !.tags = ParseTags(section),
                                         !.hasTags = TRUE]
                     ELSE IF startsWith(section, Chars("SUMMARY:"))
                     THEN [result EXCEPT
                             !.summary = trim(DropPrefix(section, Chars("SUMMARY:")))]
                     ELSE result
         IN  ParseSections(Tail(sections), next)

parseLLMResponse(response) ==
    ParseSections(SplitOn(response, <<"\n", "\n">>),
                  [text |-> <<>>, tags |-> <<>>, hasTags |-> FALSE,
                   summary |-> <<>>, confidence |-> 9])

\* enhanceWithLLM (src/main.ts 579-585): the text unchanged, no tags, no
\* summary.  The confidence is in tenths.
enhanceWithLLM(text) ==
    [text |-> text, tags |-> <<>>, hasTags |-> FALSE, summary |-> <<>>,
     confidence |-> 9]

(***************************************************************************)
(* Bounds and inputs                                                       *)
(***************************************************************************)

\* Calls of setupOCR over the plugin's lifetime (onload and language changes).
MaxSetups == 2

\* Images created in the vault, hence processImage runs.
MaxRuns == 2

\* Length of the strings given to cleanupText and calculateSimilarity.
MaxTextLen == 3

\* Number of tokens of the texts given to generateTags.
MaxTokens == 3

\* Number of blocks of the responses given to parseLLMResponse.
MaxBlocks == 3

\* const psmModes = [PSM.SINGLE_BLOCK, PSM.SINGLE_LINE, PSM.SPARSE_TEXT]
psmModes == <<"SINGLE_BLOCK", "SINGLE_LINE", "SPARSE_TEXT">>

\* DEFAULT_SETTINGS.imageFolder with the slashes at both ends removed.
ImageFolder == "NoteCaps/Images"

\* The other folder the settings can name as output folder; "" is the root.
NotesFolder == "Notes"

\* An outcome of one recognize job: a text, or a rejection.
Recognized(str) == [ok |-> TRUE, text |-> Chars(str)]

Rejected == [ok |-> FALSE, text |-> <<>>]

\* A photographed page: the size of its file and what the engine reads on
\* it under each of the three page-segmentation modes.
Page(bytes, o1, o2, o3) == [byteLength |-> bytes, ocr |-> <<o1, o2, o3>>]

\* The pages of the plugin specification.
SomePages ==
    { Page(4, Recognized("Buy milk"), Recognized("Buy milk and eggs tomorrow"),
              Recognized("eggs")),
      Page(4, Recognized(""), Recognized("milk"), Rejected),
      Page(4, Rejected, Rejected, Rejected),
      Page(0, Rejected, Rejected, Rejected) }

\* The pages of the recognition specification: every combination of these
\* outcomes over the three modes.
OcrOutcomes ==
    { Recognized(""), Recognized("milk"), Recognized("eggs"),
      Recognized("milk eggs"), Rejected }

AllPages == { Page(4, o1, o2, o3) : o1 \in OcrOutcomes, o2 \in OcrOutcomes,
                                    o3 \in OcrOutcomes }

\* Bodies a vision provider answers with; ok = FALSE is a non-success status.
VisionReplies ==
    { [ok |-> TRUE,
       body |-> Chars("TEXT:\nHello world\n\nTAGS:\ngreeting, demo\n\nSUMMARY:\nA greeting.")],
      [ok |-> TRUE, body |-> Chars("TEXT:\nAI and C++\n\nTAGS:\nAI, C++, Demo, demo")],
      [ok |-> TRUE, body |-> Chars("TEXT:\nmilk eggs")],
      [ok |-> FALSE, body |-> <<>>] }

\* Answers to the title request.
TitleReplies ==
    { [ok |-> TRUE, body |-> Chars(" Shopping List ")],
      [ok |-> FALSE, body |-> <<>>] }

\* Names of the image files the user creates.
ImageNames == { "scan" }

ImageExtensions == { "png", "jpg", "jpeg", "heic" }

\* A note of the vault, with no image data.
Note(folder, name, text) ==
    [folder |-> folder, basename |-> Chars(name), extension |-> "md",
     page |-> Page(0, Rejected, Rejected, Rejected), content |-> Chars(text)]

\* The vault before the plugin is loaded: no note, one note in the root,
\* one note at the path processImage derives for the first of SomePages, or
\* two notes of which the second shares 3 of 10 words with that page's text.
InitialNotes ==
    { {},
      { Note("", "groceries", "buy milk and eggs\n") },
      { Note("", "buy-milk-and-eggs", "Buy milk and eggs today") },
      { Note("", "groceries", "buy milk and eggs\n"),
        Note("", "errands", "buy milk and a b c d e") } }

(***************************************************************************)
(* State                                                                   *)
(***************************************************************************)

VARIABLES
    input,          \* arguments of a call of a pure function
    output,         \* the results of the calls made, in order
    settings,       \* NoteCap.settings
    scheduler,      \* NoteCap.scheduler: 0 is null, k the scheduler of call k
    worker,         \* NoteCap.worker: 0 is null, k the worker of call k
    isInitialized,  \* NoteCap.isInitialized
    workers,        \* the Tesseract workers created so far
    schedulers,     \* the Tesseract schedulers created so far
    plugin,         \* position of onload
    setups,         \* position of each call of setupOCR
    unload,         \* position of onunload
    runs,           \* position and locals of each call of processImage
    vaultFiles,     \* the files of the vault
    vaultFolders    \* the folders of the vault

pureVars == <<input, output>>

engineVars == <<scheduler, worker, isInitialized, workers, schedulers>>

vaultVars == <<vaultFiles, vaultFolders>>

pluginVars == <<settings, engineVars, plugin, setups, unload, runs, vaultVars>>

vars == <<pureVars, pluginVars>>

Setups == 1..MaxSetups

Runs == 1..MaxRuns

NoPage == Page(0, Rejected, Rejected, Rejected)

NoPath == [folder |-> "", basename |-> <<>>, extension |-> ""]

\* The locals of a processImage call that did not start.
IdleRun ==
    [pc |-> "idle", page |-> NoPage, file |-> NoPath,
     modeIndex |-> 0, target |-> 0, job |-> 0,
     bestResult |-> <<>>, maxWordCount |-> 0,
     extractedText |-> <<>>, tags |-> <<>>, hasTags |-> FALSE,
     summary |-> <<>>,
     noteTitle |-> <<>>, formattedTags |-> <<>>, moved |-> FALSE,
     files |-> <<>>, fileIndex |-> 0, relatedNotes |-> <<>>,
     deletedNote |-> FALSE, error |-> ""]

\* The plugin object after construction (fields of lines 60-63), with the
\* settings loadSettings will read.
PluginConstructed ==
    /\ scheduler = 0
    /\ worker = 0
    /\ isInitialized = FALSE
    /\ workers = [k \in Setups |-> [state |-> "absent", psm |-> "none"]]
    /\ schedulers = [k \in Setups |-> [state |-> "absent", workers |-> {}]]
    /\ plugin = "constructed"
    /\ setups = [k \in Setups |-> [pc |-> "idle", target |-> 0]]
    /\ unload = [pc |-> "idle", target |-> 0]
    /\ runs = [r \in Runs |-> IdleRun]

\* minimumTagConfidence is in tenths.
DefaultSettings ==
    [minimumTagConfidence |-> 7,
     useVisionForOcr |-> FALSE, llmProvider |-> "none",
     enhanceWithLlm |-> FALSE, enableAutoBacklinks |-> TRUE,
     summarizeContent |-> FALSE, outputFolder |-> "", language |-> 0]

\* The persisted settings the model starts from.  enhanceWithLlm has an
\* effect only in local mode with a provider.
SettingsChoices ==
    { [DefaultSettings EXCEPT !.useVisionForOcr = v, !.llmProvider = p,
                              !.enhanceWithLlm = e, !.enableAutoBacklinks = b,
                              !.outputFolder = o,
                              !.minimumTagConfidence = m] :
        v \in BOOLEAN, p \in {"none", "openai"}, e \in BOOLEAN,
        b \in BOOLEAN, o \in {"", NotesFolder}, m \in {0, 7} }

(***************************************************************************)
(* The pure functions, called on bounded inputs                            *)
(***************************************************************************)

\* All strings of at most n characters of the alphabet.
StringsUpTo(alphabet, n) == UNION { [1..k -> alphabet] : k \in 0..n }

\* The plugin object is constructed and takes no step while a pure function
\* is called.
PluginAtRest ==
    /\ PluginConstructed
    /\ settings = DefaultSettings
    /\ vaultFiles = {}
    /\ vaultFolders = {}

\* Characters each pass of cleanupText treats differently: punctuation,
\* the repaired characters, a letter, whitespace, and a character outside
\* \x20-\x7E (the tab).
CleanupAlphabet == {".", ",", "|", "I", "0", "a", " ", "\n", "\t"}

InitText ==
    /\ PluginAtRest
    /\ input \in { <<s>> : s \in StringsUpTo(CleanupAlphabet, MaxTextLen) }
    /\ output = <<>>

\* cleanupText applied to the input, then to its own result.
cleanupTextCall ==
    /\ Len(output) < 2
    /\ output' = Append(output,
                        cleanupText(IF output = <<>> THEN input[1]
                                    ELSE output[Len(output)]))
    /\ UNCHANGED <<input, pluginVars>>

NextText == cleanupTextCall

SpecText == InitText /\ [][NextText]_vars

\* Tokens of the texts given to generateTags: plain words, a capitalised
\* word, a word of StopWords that is not in commonWords, a word of both
\* lists, a three-letter word, words with punctuation, digits.
TagTokens ==
    { Chars(w) : w \in {"note", "Milk", "look", "time", "abc", "to-do's",
                        "2024", "--"} }

TagTexts ==
    { join(ws, sep) : ws \in StringsUpTo(TagTokens, MaxTokens),
                      sep \in {<<" ">>, <<"\n", " ">>} }

InitTags ==
    /\ PluginAtRest
    /\ input \in { <<text>> : text \in TagTexts }
    /\ output = <<>>

generateTagsCall ==
    /\ output = <<>>
    /\ output' = <<generateTags(input[1])>>
    /\ UNCHANGED <<input, pluginVars>>

NextTags == generateTagsCall

SpecTags == InitTags /\ [][NextTags]_vars

SimilarityAlphabet == {"a", "A", "b", " "}

InitSimilarity ==
    /\ PluginAtRest
    /\ input \in { <<a, b>> : a \in StringsUpTo(SimilarityAlphabet, MaxTextLen),
                              b \in StringsUpTo(SimilarityAlphabet, MaxTextLen) }
    /\ output = <<>>

\* calculateSimilarity called on the two texts, then on the two texts in
\* the other order.
calculateSimilarityCall ==
    /\ Len(output) < 2
    /\ output' = Append(output,
                        IF output = <<>>
                        THEN calculateSimilarity(input[1], input[2])
                        ELSE calculateSimilarity(input[2], input[1]))
    /\ UNCHANGED <<input, pluginVars>>

NextSimilarity == calculateSimilarityCall

SpecSimilarity == InitSimilarity /\ [][NextSimilarity]_vars

\* A block of a provider response in the format constructVisionPrompt asks
\* for: a prefix and the items that follow it, separated by commas (one item
\* for a text or a summary).
Block(prefix, items) ==
    [prefix |-> Chars(prefix),
     items |-> [i \in 1..Len(items) |-> Chars(items[i])]]

ResponseBlocks ==
    { Block("TEXT:", <<"\nHello world">>),
      Block("TEXT:", <<" hi, there ">>),
      Block("TAGS:", <<"\ngreeting", " Demo ", "", " C++">>),
      Block("TAGS:", <<" ", "">>),
      Block("SUMMARY:", <<"\nA greeting.">>),
      Block("SUMMARY:", <<" x ">>),
      Block("", <<"Note: TEXT: none">>),
      Block("", <<"">>) }

\* The text of a response: its blocks, one blank line between two of them.
RenderBlock(block) == block.prefix \o join(block.items, <<",">>)

RenderResponse(blocks) ==
    join([i \in 1..Len(blocks) |-> RenderBlock(blocks[i])], <<"\n", "\n">>)

InitParse ==
    /\ PluginAtRest
    /\ input \in { <<blocks>> : blocks \in StringsUpTo(ResponseBlocks, MaxBlocks) }
    /\ output = <<>>

parseLLMResponseCall ==
    /\ output = <<>>
    /\ output' = <<parseLLMResponse(RenderResponse(input[1]))>>
    /\ UNCHANGED <<input, pluginVars>>

NextParse == parseLLMResponseCall

SpecParse == InitParse /\ [][NextParse]_vars

(***************************************************************************)
(* setupOCR (src/main.ts 131-165)                                          *)
(***************************************************************************)

Live(w) == w # 0 /\ workers[w].state = "created"

IdleSetups == { k \in Setups : setups[k].pc = "idle" }

\* The next call of setupOCR is call k.
NextSetup(k) == k \in IdleSetups /\ \A j \in IdleSetups : k <= j

\* The synchronous start of call k: this.scheduler = createScheduler(), then
\* createWorker is awaited.
setupOCRStart(k) ==
    /\ scheduler' = k
    /\ schedulers' = [schedulers EXCEPT ![k].state = "created"]
    /\ setups' = [setups EXCEPT ![k].pc = "createWorker"]
    /\ UNCHANGED <<worker, workers, isInitialized>>

\* What onload does when the setupOCR call it awaits settles: it registers
\* the vault handler, or its catch reports the failure.
OnloadAfterSetup(k, ok) ==
    IF k = 1 /\ plugin = "setupOCR"
    THEN plugin' = (IF ok THEN "loaded" ELSE "failed")
    ELSE UNCHANGED plugin

\* The catch of setupOCR: isInitialized = false, and the error is rethrown.
SetupFailed(k) ==
    /\ isInitialized' = FALSE
    /\ setups' = [setups EXCEPT ![k].pc = "failed"]
    /\ OnloadAfterSetup(k, FALSE)
    /\ UNCHANGED <<scheduler, worker, workers, schedulers>>

\* createWorker resolves: this.worker is the new worker, and loadLanguage is
\* called on it.  A new worker segments pages as a single block.
SetupCreateWorker(k) ==
    /\ setups[k].pc = "createWorker"
    /\ worker' = k
    /\ workers' = [workers EXCEPT ![k] = [state |-> "created",
                                          psm |-> "SINGLE_BLOCK"]]
    /\ setups' = [setups EXCEPT ![k] = [pc |-> "loadLanguage", target |-> k]]
    /\ UNCHANGED <<scheduler, isInitialized, schedulers, plugin>>
    /\ UNCHANGED <<pureVars, settings, unload, runs, vaultVars>>

\* loadLanguage settles: it rejects when the language data cannot be loaded
\* or the worker was terminated; otherwise initialize is called on
\* this.worker.
SetupLoadLanguage(k) ==
    /\ setups[k].pc = "loadLanguage"
    /\ \E loaded \in BOOLEAN :
         IF loaded /\ Live(setups[k].target)
         THEN /\ setups' = [setups EXCEPT ![k] = [pc |-> "initialize",
                                                  target |-> worker]]
              /\ UNCHANGED <<engineVars, plugin>>
         ELSE SetupFailed(k)
    /\ UNCHANGED <<pureVars, settings, unload, runs, vaultVars>>

\* initialize settles; setParameters is called on this.worker.
SetupInitialize(k) ==
    /\ setups[k].pc = "initialize"
    /\ IF Live(setups[k].target)
       THEN /\ setups' = [setups EXCEPT ![k] = [pc |-> "setParameters",
                                                target |-> worker]]
            /\ UNCHANGED <<engineVars, plugin>>
       ELSE SetupFailed(k)
    /\ UNCHANGED <<pureVars, settings, unload, runs, vaultVars>>

\* setParameters settles; then this.scheduler.addWorker(this.worker) and
\* isInitialized = true.
SetupSetParameters(k) ==
    /\ setups[k].pc = "setParameters"
    /\ IF Live(setups[k].target)
       THEN /\ workers' = [workers EXCEPT
                             ![setups[k].target].psm = "SINGLE_BLOCK"]
            /\ schedulers' = [schedulers EXCEPT ![scheduler].workers =
                                                  @ \cup {worker}]
            /\ isInitialized' = TRUE
            /\ setups' = [setups EXCEPT ![k].pc = "done"]
            /\ OnloadAfterSetup(k, TRUE)
            /\ UNCHANGED <<scheduler, worker>>
       ELSE SetupFailed(k)
    /\ UNCHANGED <<pureVars, settings, unload, runs, vaultVars>>

(***************************************************************************)
(* onload (src/main.ts 65-111) and onunload (src/main.ts 113-121)          *)
(***************************************************************************)

\* loadSettings, then setupOCR unless vision mode is selected; with vision
\* mode the ribbon icon, the settings tab and the vault handler are
\* registered at once.
Onload ==
    /\ plugin = "constructed"
    /\ IF ~settings.useVisionForOcr
       THEN /\ plugin' = "setupOCR"
            /\ setupOCRStart(1)
       ELSE /\ plugin' = "loaded"
            /\ UNCHANGED <<engineVars, setups>>
    /\ UNCHANGED <<pureVars, settings, unload, runs, vaultVars>>

\* The vault handler of lines 93-104 is registered and not yet detached.
HandlerRegistered == plugin = "loaded" /\ unload.pc = "idle"

\* onunload begins: the handler is detached; worker.terminate() is awaited
\* if there is a worker, else scheduler.terminate() if there is a scheduler.
OnunloadStart ==
    /\ plugin \in {"loaded", "failed"}
    /\ unload.pc = "idle"
    /\ unload' = IF worker # 0
                 THEN [pc |-> "terminateWorker", target |-> worker]
                 ELSE IF scheduler # 0
                 THEN [pc |-> "terminateScheduler", target |-> scheduler]
                 ELSE [pc |-> "done", target |-> 0]
    /\ UNCHANGED <<pureVars, settings, engineVars, plugin, setups, runs,
                   vaultVars>>

\* worker.terminate() settles; scheduler.terminate() is awaited next.
OnunloadTerminateWorker ==
    /\ unload.pc = "terminateWorker"
    /\ workers' = [workers EXCEPT ![unload.target].state = "terminated"]
    /\ unload' = IF scheduler # 0
                 THEN [pc |-> "terminateScheduler", target |-> scheduler]
                 ELSE [pc |-> "done", target |-> 0]
    /\ UNCHANGED <<scheduler, worker, isInitialized, schedulers>>
    /\ UNCHANGED <<pureVars, settings, plugin, setups, runs, vaultVars>>

\* scheduler.terminate() settles: the scheduler and its workers are
\* terminated.
OnunloadTerminateScheduler ==
    /\ unload.pc = "terminateScheduler"
    /\ schedulers' = [schedulers EXCEPT ![unload.target].state = "terminated"]
    /\ workers' = [w \in Setups |->
                     IF w \in schedulers[unload.target].workers
                     THEN [workers[w] EXCEPT !.state = "terminated"]
                     ELSE workers[w]]
    /\ unload' = [pc |-> "done", target |-> 0]
    /\ UNCHANGED <<scheduler, worker, isInitialized>>
    /\ UNCHANGED <<pureVars, settings, plugin, setups, runs, vaultVars>>

(***************************************************************************)
(* NoteCapSettingTab: the OCR Language field (src/main.ts 1200-1214)       *)
(***************************************************************************)

\* The field is shown while no provider is selected; a change stores the
\* language, saves the settings and calls setupOCR.
ChangeLanguage ==
    /\ plugin = "loaded"
    /\ unload.pc = "idle"
    /\ settings.llmProvider = "none"
    /\ \E k \in Setups :
         /\ NextSetup(k)
         /\ setupOCRStart(k)
    /\ settings' = [settings EXCEPT !.language = @ + 1]
    /\ UNCHANGED <<pureVars, plugin, unload, runs, vaultVars>>

(***************************************************************************)
(* The vault (the Obsidian document store)                                 *)
(***************************************************************************)

PathOf(f) ==
    [folder |-> f.folder, basename |-> f.basename, extension |-> f.extension]

\* getAbstractFileByPath(path) finds a file.
Exists(path) == \E f \in vaultFiles : PathOf(f) = path

FileAt(path) == CHOOSE f \in vaultFiles : PathOf(f) = path

\* getMarkdownFiles(): the notes, in the store's enumeration order.
MarkdownFiles ==
    LET md == { f \in vaultFiles : f.extension = "md" }
    IN  CHOOSE seq \in [1..Cardinality(md) -> md] :
            \A i, j \in 1..Cardinality(md) : i # j => seq[i] # seq[j]

(***************************************************************************)
(* processImage (src/main.ts 167-327)                                      *)
(***************************************************************************)

IdleRuns == { r \in Runs : runs[r].pc = "idle" }

\* A processImage call that started and has neither returned nor thrown.
InProgress(r) == runs[r].pc \notin {"idle", "done", "failed"}

\* The catch of lines 320-326: the error is reported and rethrown.
Failed(r, message) == [runs[r] EXCEPT !.pc = "failed", !.error = message]

\* The handler of lines 93-104 for a created file: processImage is called
\* for an image extension and runs up to its first await, readBinary.
StartsRunAnyFile(file) == HandlerRegistered

StartsRun(file) == HandlerRegistered /\ file.extension \in ImageExtensions

\* An image file appears in the vault (the upload modal's createBinary, or a
\* file put into a folder); the vault emits create.
CreateImage(pages, slots) ==
    /\ plugin = "loaded"
    /\ \E r \in slots, page \in pages, name \in ImageNames,
          folder \in {""} \cup (vaultFolders \cap {ImageFolder}) :
         LET file == [folder |-> folder, basename |-> Chars(name),
                      extension |-> "png", page |-> page, content |-> <<>>]
         IN  /\ r \in IdleRuns /\ \A q \in IdleRuns : r <= q
             /\ ~Exists(PathOf(file))
             /\ vaultFiles' = vaultFiles \cup {file}
             /\ runs' = IF StartsRun(file)
                        THEN [runs EXCEPT ![r] =
                                [IdleRun EXCEPT !.pc = "readBinary",
                                                !.page = page,
                                                !.file = PathOf(file)]]
                        ELSE runs
    /\ UNCHANGED <<pureVars, settings, engineVars, plugin, setups, unload,
                   vaultFolders>>

\* A file that is no image appears in the vault (a note the user writes, a
\* document put into the root folder); the vault emits create and the
\* handler of lines 93-104 decides.
OtherExtensions == { "md", "pdf" }

CreateDocument(slots) ==
    /\ plugin = "loaded"
    /\ \E extension \in OtherExtensions :
         LET file == [folder |-> "", basename |-> Chars("memo"),
                      extension |-> extension, page |-> NoPage,
                      content |-> <<>>]
         IN  /\ ~Exists(PathOf(file))
             /\ vaultFiles' = vaultFiles \cup {file}
             /\ IF StartsRun(file)
                THEN \E r \in slots \cap IdleRuns :
                        /\ \A q \in IdleRuns : r <= q
                        /\ runs' = [runs EXCEPT ![r] =
                                      [IdleRun EXCEPT !.pc = "readBinary",
                                                      !.file = PathOf(file)]]
                ELSE UNCHANGED runs
    /\ UNCHANGED <<pureVars, settings, engineVars, plugin, setups, unload,
                   vaultFolders>>

\* readBinary settles (lines 177-180).
ReadBinary(r) ==
    /\ runs[r].pc = "readBinary"
    /\ runs' = [runs EXCEPT ![r] =
                  IF ~Exists(runs[r].file)
                  THEN Failed(r, "File not found")
                  ELSE IF FileAt(runs[r].file).page.byteLength = 0
                  THEN Failed(r, "Image file is empty or couldn't be read")
                  ELSE [@ EXCEPT !.pc = "convertToBase64",
                                 !.page = FileAt(runs[r].file).page]]
    /\ UNCHANGED <<pureVars, settings, engineVars, plugin, setups, unload,
                   vaultVars>>

\* convertToBase64 settles, and vision mode sends its request without the
\* check of lines 192-197 on the provider.
ConvertToBase64NoProviderCheck(r) ==
    /\ runs[r].pc = "convertToBase64"
    /\ runs' = [runs EXCEPT ![r] =
                  IF settings.useVisionForOcr
                  THEN [@ EXCEPT !.pc = "vision"]
                  ELSE IF ~isInitialized \/ scheduler = 0
                       THEN Failed(r, "Tesseract OCR not initialized")
                       ELSE [@ EXCEPT !.pc = "setParameters",
                                      !.modeIndex = 1,
                                      !.target = worker]]
    /\ UNCHANGED <<pureVars, settings, engineVars, plugin, setups, unload,
                   vaultVars>>

\* convertToBase64 settles; then the branch of lines 191-211 up to the next
\* await: the provider request in vision mode, the first setParameters of
\* processWithTesseract (lines 388-405) in local mode.
ConvertToBase64(r) ==
    /\ runs[r].pc = "convertToBase64"
    /\ runs' = [runs EXCEPT ![r] =
                  IF settings.useVisionForOcr
                  THEN IF settings.llmProvider = "none"
                       THEN Failed(r, "Vision OCR selected but no LLM provider configured")
                       ELSE [@ EXCEPT !.pc = "vision"]
                  ELSE IF ~isInitialized \/ scheduler = 0
                       THEN Failed(r, "Tesseract OCR not initialized")
                       ELSE [@ EXCEPT !.pc = "setParameters",
                                      !.modeIndex = 1,
                                      !.target = worker]]
    /\ UNCHANGED <<pureVars, settings, engineVars, plugin, setups, unload,
                   vaultVars>>

\* generateTitleFromContent without a provider (lines 383-385).
FallbackTitle(content) ==
    LET words == splitWhitespace(trim(content))
        first == SubSeq(words, 1, IF Len(words) < 4 THEN Len(words) ELSE 4)
        title == join(first, <<" ">>)
        cut   == SubSeq(title, 1, IF Len(title) < 50 THEN Len(title) ELSE 50)
    IN  IF cut = <<>> THEN Chars("Untitled Note") ELSE cut

\* Lines 237-255 for a run whose title is known: the tags are formatted;
\* createFolder is awaited if the image folder is missing, else delete if a
\* file lies at the new image path, else rename.
NewImagePath(run) ==
    [folder |-> ImageFolder, basename |-> run.file.basename,
     extension |-> run.file.extension]

MoveFrom(run) ==
    [run EXCEPT !.pc = IF Exists(NewImagePath(run)) THEN "deleteExisting"
                       ELSE "rename"]

WithTitle(run, title) ==
    LET titled == [run EXCEPT
                     !.noteTitle = title,
                     !.formattedTags =
                         [i \in 1..Len(run.tags) |-> formatTag(run.tags[i])]]
    IN  IF ImageFolder \notin vaultFolders
        THEN [titled EXCEPT !.pc = "createFolder"]
        ELSE MoveFrom(titled)

\* Lines 226-235 without the check of line 227 on the text.
WithResultUnchecked(run, result) ==
    LET got == [run EXCEPT !.extractedText = result.text,
                           !.tags = result.tags,
                           !.hasTags = result.hasTags,
                           !.summary = result.summary]
    IN  IF settings.llmProvider # "none"
        THEN [got EXCEPT !.pc = "title"]
        ELSE WithTitle(got, FallbackTitle(result.text))

\* Lines 226-235 for a run whose recognition result is known: the text must
\* not be empty; the title request is awaited if a provider is selected.
WithResult(run, result) ==
    LET got == [run EXCEPT !.extractedText = result.text,
                           !.tags = result.tags,
                           !.hasTags = result.hasTags,
                           !.summary = result.summary]
    IN  IF trim(result.text) = <<>>
        THEN [got EXCEPT !.pc = "failed",
                         !.error = "No text was extracted from the image"]
        ELSE IF settings.llmProvider # "none"
        THEN [got EXCEPT !.pc = "title"]
        ELSE WithTitle(got, FallbackTitle(result.text))

\* Lines 211-223 for a run whose processWithTesseract call returned text.
WithLocalText(run, text) ==
    IF settings.enhanceWithLlm /\ settings.llmProvider # "none"
    THEN WithResult(run, enhanceWithLLM(text))
    ELSE WithResult(run, [text |-> text, tags |-> generateTags(text),
                          hasTags |-> FALSE, summary |-> <<>>,
                          confidence |-> 9])

(***************************************************************************)
(* processWithTesseract (src/main.ts 388-421)                              *)
(***************************************************************************)

\* text.split(/\s+/).length
WordCountOfPieces(text) == Len(splitWhitespace(text))

\* Lines 408-414: the attempt's text replaces the best one if it has more
\* words.
KeepBest(run, text) ==
    IF WordCountOfPieces(text) > run.maxWordCount
    THEN [run EXCEPT !.maxWordCount = WordCountOfPieces(text),
                     !.bestResult = text]
    ELSE run

\* The end of one pass of the loop: the next mode's setParameters is called
\* on this.worker, or after the third mode cleanupText(bestResult) is
\* returned to processImage.
NextMode(run) ==
    IF run.modeIndex < Len(psmModes)
    THEN [run EXCEPT !.pc = "setParameters", !.modeIndex = @ + 1,
                     !.target = worker, !.job = 0]
    ELSE WithLocalText([run EXCEPT !.job = 0], cleanupText(run.bestResult))

\* setParameters settles.  this.worker?.setParameters does nothing for a
\* null worker; a terminated worker rejects, which the catch of the pass
\* logs.  Then scheduler.addJob("recognize", ...) is awaited.
TessSetParameters(r) ==
    /\ runs[r].pc = "setParameters"
    /\ LET w == runs[r].target
       IN  IF w = 0 \/ Live(w)
           THEN /\ workers' = IF w = 0 THEN workers
                              ELSE [workers EXCEPT ![w].psm =
                                        psmModes[runs[r].modeIndex]]
                /\ runs' = [runs EXCEPT ![r].pc = "recognize",
                                        ![r].job = scheduler]
           ELSE /\ runs' = [runs EXCEPT ![r] = NextMode(@)]
                /\ UNCHANGED workers
    /\ UNCHANGED <<scheduler, worker, isInitialized, schedulers>>
    /\ UNCHANGED <<pureVars, settings, plugin, setups, unload, vaultVars>>

ModeIndex(psm) == CHOOSE i \in 1..Len(psmModes) : psmModes[i] = psm

\* The recognize job settles on a worker of its scheduler: the engine reads
\* the page under the worker's current page-segmentation mode.
TessRecognize(r) ==
    /\ runs[r].pc = "recognize"
    /\ schedulers[runs[r].job].state = "created"
    /\ \E w \in schedulers[runs[r].job].workers :
         /\ Live(w)
         /\ LET outcome == runs[r].page.ocr[ModeIndex(workers[w].psm)]
            IN  runs' = [runs EXCEPT ![r] =
                           NextMode(IF outcome.ok
                                    THEN KeepBest(@, trim(outcome.text))
                                    ELSE @)]
    /\ UNCHANGED <<pureVars, settings, engineVars, plugin, setups, unload,
                   vaultVars>>

\* A job of a terminated scheduler, or of a scheduler whose workers are
\* terminated, may be rejected (or stay pending for ever).
TessJobRejected(r) ==
    /\ runs[r].pc = "recognize"
    /\ \/ schedulers[runs[r].job].state = "terminated"
       \/ \E w \in schedulers[runs[r].job].workers : ~Live(w)
    /\ runs' = [runs EXCEPT ![r] = NextMode(@)]
    /\ UNCHANGED <<pureVars, settings, engineVars, plugin, setups, unload,
                   vaultVars>>

(***************************************************************************)
(* processWithVisionAPI (src/main.ts 423-526) and the title request        *)
(* (src/main.ts 329-386)                                                   *)
(***************************************************************************)

\* The provider answers: a non-success status is rethrown; a body is parsed
\* by parseLLMResponse.
Vision(r) ==
    /\ runs[r].pc = "vision"
    /\ \E reply \in VisionReplies :
         runs' = [runs EXCEPT ![r] =
                    IF reply.ok
                    THEN WithResult(@, parseLLMResponse(reply.body))
                    ELSE Failed(r, "API error")]
    /\ UNCHANGED <<pureVars, settings, engineVars, plugin, setups, unload,
                   vaultVars>>

\* The title request settles, and its failure is thrown to processImage.
TitleRethrows(r) ==
    /\ runs[r].pc = "title"
    /\ \E reply \in TitleReplies :
         runs' = [runs EXCEPT ![r] =
                    IF reply.ok THEN WithTitle(@, trim(reply.body))
                    ELSE Failed(r, "OpenAI API error")]
    /\ UNCHANGED <<pureVars, settings, engineVars, plugin, setups, unload,
                   vaultVars>>

\* The title request settles: the trimmed answer, or "Untitled Note" from
\* the catch of generateTitleFromContent.
Title(r) ==
    /\ runs[r].pc = "title"
    /\ \E reply \in TitleReplies :
         runs' = [runs EXCEPT ![r] =
                    WithTitle(@, IF reply.ok THEN trim(reply.body)
                                 ELSE Chars("Untitled Note"))]
    /\ UNCHANGED <<pureVars, settings, engineVars, plugin, setups, unload,
                   vaultVars>>

(***************************************************************************)
(* processImage, lines 240-319: the image move and the note                *)
(***************************************************************************)

\* createFolder settles (lines 244-247); it throws if the folder exists by
\* now.
CreateFolder(r) ==
    /\ runs[r].pc = "createFolder"
    /\ IF ImageFolder \in vaultFolders
       THEN /\ runs' = [runs EXCEPT ![r] = Failed(r, "Folder already exists")]
            /\ UNCHANGED vaultFolders
       ELSE /\ vaultFolders' = vaultFolders \cup {ImageFolder}
            /\ runs' = [runs EXCEPT ![r] = MoveFrom(@)]
    /\ UNCHANGED <<pureVars, settings, engineVars, plugin, setups, unload,
                   vaultFiles>>

\* findRelatedNotes up to its first await (lines 811-821), entered from
\* line 286 if auto-backlinks are enabled; then lines 297-309: delete is
\* awaited if a note lies at the note path, else create.
OutputFolder == settings.outputFolder

NotePath(run) ==
    [folder |-> OutputFolder, basename |-> formatTag(run.noteTitle),
     extension |-> "md"]

Persist(run) ==
    [run EXCEPT !.pc = IF Exists(NotePath(run)) THEN "deleteNote"
                       ELSE "createNote"]

\* Persist for the vault as this step leaves it.
PersistIn(run, files) ==
    [run EXCEPT !.pc = IF \E f \in files : PathOf(f) = NotePath(run)
                       THEN "deleteNote" ELSE "createNote"]

RelatedFrom(run, files) ==
    LET md == { f \in files : f.extension = "md" }
        listed == CHOOSE seq \in [1..Cardinality(md) -> md] :
                     \A i, j \in 1..Cardinality(md) : i # j => seq[i] # seq[j]
    IN  IF settings.enableAutoBacklinks /\ listed # <<>>
        THEN [run EXCEPT !.pc = "readNote",
                         !.files = [i \in 1..Len(listed) |-> PathOf(listed[i])],
                         !.fileIndex = 1]
        ELSE PersistIn(run, files)

\* vault.delete(existingFile) settles (lines 256-259).  A failure is caught
\* by the catch of lines 264-267, which skips the rename.
DeleteExisting(r) ==
    /\ runs[r].pc = "deleteExisting"
    /\ LET path == NewImagePath(runs[r])
           left == { f \in vaultFiles : PathOf(f) # path }
       IN  IF Exists(path)
           THEN /\ vaultFiles' = left
                /\ runs' = [runs EXCEPT ![r].pc = "rename"]
           ELSE /\ UNCHANGED vaultFiles
                /\ runs' = [runs EXCEPT ![r] = RelatedFrom(@, vaultFiles)]
    /\ UNCHANGED <<pureVars, settings, engineVars, plugin, setups, unload,
                   vaultFolders>>

\* vault.rename(file, newImagePath) settles (lines 261-263); it throws, into
\* the same catch, if the file is gone or the destination is taken.
Rename(r) ==
    /\ runs[r].pc = "rename"
    /\ LET from == runs[r].file
           to   == NewImagePath(runs[r])
       IN  IF Exists(from) /\ ~Exists(to)
           THEN LET moved == [FileAt(from) EXCEPT !.folder = ImageFolder]
                    files == (vaultFiles \ {FileAt(from)}) \cup {moved}
                IN  /\ vaultFiles' = files
                    /\ runs' = [runs EXCEPT ![r] =
                                  RelatedFrom([@ EXCEPT !.moved = TRUE], files)]
           ELSE /\ UNCHANGED vaultFiles
                /\ runs' = [runs EXCEPT ![r] = RelatedFrom(@, vaultFiles)]
    /\ UNCHANGED <<pureVars, settings, engineVars, plugin, setups, unload,
                   vaultFolders>>

\* The threshold of line 823, 0.3, as a quotient.
RelatedThreshold == [num |-> 3, den |-> 10]

\* vault.read settles for one file of the loop of findRelatedNotes (lines
\* 820-826); after the last one, lines 297-309.
ReadNote(r) ==
    /\ runs[r].pc = "readNote"
    /\ LET path == runs[r].files[runs[r].fileIndex]
           score == calculateSimilarity(runs[r].extractedText,
                                        FileAt(path).content)
           read == IF RatGreater(score, RelatedThreshold)
                   THEN [runs[r] EXCEPT !.relatedNotes =
                                          Append(@, path.basename)]
                   ELSE runs[r]
       IN  runs' = [runs EXCEPT ![r] =
                      IF ~Exists(path)
                      THEN Failed(r, "File not found")
                      ELSE IF runs[r].fileIndex < Len(runs[r].files)
                      THEN [read EXCEPT !.fileIndex = @ + 1]
                      ELSE Persist(read)]
    /\ UNCHANGED <<pureVars, settings, engineVars, plugin, setups, unload,
                   vaultVars>>

\* Lines 270-295: the content of the note.
NoteContent(run) ==
    LET paragraphs == splitLines(trim(run.extractedText))
        hashed == [i \in 1..Len(run.formattedTags) |->
                     <<"#">> \o run.formattedTags[i]]
        links == [i \in 1..Len(run.relatedNotes) |->
                    Chars("[[") \o run.relatedNotes[i] \o Chars("]]")]
    IN  join(paragraphs, <<"\n", "\n">>)
        \o (IF settings.summarizeContent /\ run.summary # <<>>
            THEN Chars("\n\n## Summary\n") \o trim(run.summary) ELSE <<>>)
        \o (IF Len(run.formattedTags) > 0
            THEN Chars("\n\n### Tags\n") \o join(hashed, <<" ">>) ELSE <<>>)
        \o (IF settings.enableAutoBacklinks /\ Len(run.relatedNotes) > 0
            THEN Chars("\n\n## Related Notes\n") \o join(links, <<"\n">>)
            ELSE <<>>)
        \o Chars("\n\n### Source Image\n[[") \o Chars(ImageFolder) \o <<"/">>
        \o run.file.basename \o <<".">> \o Chars(run.file.extension)
        \o Chars("|View original image]]")

\* vault.delete(existingNote) settles (lines 306-309).
DeleteNote(r) ==
    /\ runs[r].pc = "deleteNote"
    /\ IF Exists(NotePath(runs[r]))
       THEN /\ vaultFiles' = { f \in vaultFiles : PathOf(f) # NotePath(runs[r]) }
            /\ runs' = [runs EXCEPT ![r].pc = "createNote",
                                    ![r].deletedNote = TRUE]
       ELSE /\ UNCHANGED vaultFiles
            /\ runs' = [runs EXCEPT ![r] = Failed(r, "File not found")]
    /\ UNCHANGED <<pureVars, settings, engineVars, plugin, setups, unload,
                   vaultFolders>>

\* vault.create(notePath, noteContent) settles (lines 311-319); it throws if
\* a file lies at the path or the folder of the path is missing.  The vault
\* emits create for the note, which the handler ignores: no image extension.
CreateNote(r) ==
    /\ runs[r].pc = "createNote"
    /\ LET path == NotePath(runs[r])
           note == [folder |-> path.folder, basename |-> path.basename,
                    extension |-> "md", page |-> NoPage,
                    content |-> NoteContent(runs[r])]
       IN  IF Exists(path)
           THEN /\ runs' = [runs EXCEPT ![r] = Failed(r, "File already exists")]
                /\ UNCHANGED vaultFiles
           ELSE IF path.folder # "" /\ path.folder \notin vaultFolders
           THEN /\ runs' = [runs EXCEPT ![r] = Failed(r, "Folder not found")]
                /\ UNCHANGED vaultFiles
           ELSE /\ vaultFiles' = vaultFiles \cup {note}
                /\ runs' = [runs EXCEPT ![r].pc =
                              IF StartsRun(note) THEN "readBinary" ELSE "done"]
    /\ UNCHANGED <<pureVars, settings, engineVars, plugin, setups, unload,
                   vaultFolders>>

(***************************************************************************)
(* The plugin: onload, the settings tab, image creations, the runs of      *)
(* processImage, onunload                                                  *)
(***************************************************************************)

SetupStep ==
    \E k \in Setups :
        \/ SetupCreateWorker(k)
        \/ SetupLoadLanguage(k)
        \/ SetupInitialize(k)
        \/ SetupSetParameters(k)

OnunloadStep ==
    \/ OnunloadStart
    \/ OnunloadTerminateWorker
    \/ OnunloadTerminateScheduler

TesseractStep(r) ==
    \/ TessSetParameters(r)
    \/ TessRecognize(r)

NoteStep(r) ==
    \/ CreateFolder(r)
    \/ DeleteExisting(r)
    \/ Rename(r)
    \/ ReadNote(r)
    \/ DeleteNote(r)
    \/ CreateNote(r)

RunStep(r) ==
    \/ ReadBinary(r)
    \/ ConvertToBase64(r)
    \/ TesseractStep(r)
    \/ Vision(r)
    \/ Title(r)
    \/ NoteStep(r)

\* The settings of the plugin specification: the defaults (local OCR, no
\* provider), local OCR with a provider, vision mode with a provider.
LifecycleSettings ==
    { DefaultSettings,
      [DefaultSettings EXCEPT !.llmProvider = "openai"],
      [DefaultSettings EXCEPT !.llmProvider = "openai",
                              !.useVisionForOcr = TRUE] }

LifecyclePages ==
    { Page(4, Recognized("milk"), Recognized("milk eggs"), Recognized("")) }

Init ==
    /\ PluginConstructed
    /\ input = <<>>
    /\ output = <<>>
    /\ settings \in LifecycleSettings
    /\ vaultFolders \in SUBSET {ImageFolder}
    /\ vaultFiles = {}

Next ==
    \/ Onload
    \/ SetupStep
    \/ ChangeLanguage
    \/ CreateImage(LifecyclePages, Runs)
    \/ \E r \in Runs : RunStep(r) \/ TessJobRejected(r)
    \/ OnunloadStep

Spec == Init /\ [][Next]_vars

(***************************************************************************)
(* One image through processImage, over the settings, the pages, the       *)
(* provider answers and the vaults; the engine is set up by onload and     *)
(* left alone                                                              *)
(***************************************************************************)

InitPipeline ==
    /\ PluginConstructed
    /\ input = <<>>
    /\ output = <<>>
    /\ settings \in { c \in SettingsChoices :
                        c.enhanceWithLlm =>
                            (~c.useVisionForOcr /\ c.llmProvider # "none") }
    /\ vaultFolders \in SUBSET {ImageFolder, NotesFolder}
    /\ vaultFiles \in InitialNotes

NextPipeline ==
    \/ Onload
    \/ SetupStep
    \/ CreateImage(SomePages, {1})
    \/ RunStep(1)

SpecPipeline == InitPipeline /\ [][NextPipeline]_vars

(***************************************************************************)
(* One image through processWithTesseract, over all outcomes of the three  *)
(* recognize jobs, with the default settings                               *)
(***************************************************************************)

InitOCR ==
    /\ PluginConstructed
    /\ input = <<>>
    /\ output = <<>>
    /\ settings = DefaultSettings
    /\ vaultFolders = {ImageFolder}
    /\ vaultFiles = {}

NextOCR ==
    \/ Onload
    \/ SetupStep
    \/ CreateImage(AllPages, {1})
    \/ ReadBinary(1)
    \/ ConvertToBase64(1)
    \/ TesseractStep(1)

SpecOCR == InitOCR /\ [][NextOCR]_vars

(***************************************************************************)
(* Two images through processImage with the default settings (local OCR,   *)
(* no provider), their runs interleaved at the awaits, on one engine and    *)
(* one vault                                                                *)
(***************************************************************************)

\* The vault before the plugin is loaded: no note, or a note at the path
\* processImage derives for the text "milk eggs".
OverlapNotes ==
    { {}, { Note("", "milk-eggs", "milk eggs jam") } }

InitOverlap ==
    /\ PluginConstructed
    /\ input = <<>>
    /\ output = <<>>
    /\ settings = DefaultSettings
    /\ vaultFolders \in SUBSET {ImageFolder}
    /\ vaultFiles \in OverlapNotes

NextOverlap ==
    \/ Onload
    \/ SetupStep
    \/ CreateImage(LifecyclePages, Runs)
    \/ \E r \in Runs :
          \/ ReadBinary(r)
          \/ ConvertToBase64(r)
          \/ TesseractStep(r)
          \/ NoteStep(r)

SpecOverlap == InitOverlap /\ [][NextOverlap]_vars

(***************************************************************************)
(* The create handler over files of every kind: images and other documents *)
(* appear in the vault while up to two processImage runs are under way.    *)
(* Every awaited operation settles: a run in progress waits for exactly    *)
(* one of them, so weak fairness of its steps is written with InProgress   *)
(* as the enabling condition.                                              *)
(***************************************************************************)

TriggerSlots == {1, 2}

ProcessImageStep(r) ==
    \/ ReadBinary(r)
    \/ ConvertToBase64(r)
    \/ TesseractStep(r)
    \/ NoteStep(r)

NextTrigger ==
    \/ Onload
    \/ SetupStep
    \/ CreateImage(LifecyclePages, TriggerSlots)
    \/ CreateDocument(TriggerSlots)
    \/ \E r \in TriggerSlots : ProcessImageStep(r)

SpecTrigger ==
    /\ InitOverlap
    /\ [][NextTrigger]_vars
    /\ \A r \in TriggerSlots :
          \/ []<>(~InProgress(r))
          \/ []<><<ProcessImageStep(r)>>_vars

(***************************************************************************)
(* Properties                                                              *)
(***************************************************************************)

\* C1: cleanupText is idempotent: applying it to its own result gives that
\* result again, for every input string.
C1_CleanupIdempotent == Len(output) = 2 => output[2] = output[1]

\* ^[a-z0-9]+(-[a-z0-9]+)*$
MatchesTagPattern(tag) ==
    /\ tag # <<>>
    /\ \A i \in 1..Len(tag) : tag[i] \in TagChars
    /\ tag[1] # "-"
    /\ tag[Len(tag)] # "-"
    /\ \A i \in 1..(Len(tag) - 1) : ~(tag[i] = "-" /\ tag[i + 1] = "-")

WellFormedTag(tag) == MatchesTagPattern(tag) /\ Len(tag) > 3

\* C3: every tag generateTags returns matches ^[a-z0-9]+(-[a-z0-9]+)*$ and
\* is longer than 3 characters.
C3_GeneratedTagsWellFormed ==
    output # <<>> => \A i \in 1..Len(output[1]) : WellFormedTag(output[1][i])

\* generateTags returned a phrase tag and a single-word tag from a text that
\* also holds a three-letter word and a token that is all punctuation.
C3_Witness ==
    /\ output # <<>>
    /\ \E i \in 1..Len(output[1]) : "-" \in Range(output[1][i])
    /\ \E i \in 1..Len(output[1]) : "-" \notin Range(output[1][i])
    /\ \E i \in 1..Len(input[1]) : input[1][i] = "-"

\* The words of a text: its maximal runs of non-whitespace characters,
\* lowercased.
Words(text) ==
    { toLowerCase(SubSeq(text, i, j)) :
        <<i, j>> \in { p \in (1..Len(text)) \X (1..Len(text)) :
            /\ p[1] <= p[2]
            /\ \A k \in p[1]..p[2] : text[k] \notin WhiteSpace
            /\ (p[1] = 1 \/ text[p[1] - 1] \in WhiteSpace)
            /\ (p[2] = Len(text) \/ text[p[2] + 1] \in WhiteSpace) } }

Jaccard(A, B) ==
    [num |-> Cardinality(A \cap B), den |-> Cardinality(A \cup B)]

\* C4: calculateSimilarity returns 0 when neither text contains a word.
C4_WordlessGivesZero ==
    (output # <<>> /\ Words(input[1]) = {} /\ Words(input[2]) = {})
        => output[1].num = 0 /\ output[1].den # 0

\* C5: when the texts are not both wordless, calculateSimilarity is the
\* Jaccard index of their sets of lowercased words.
C5_SimilarityIsJaccard ==
    (output # <<>> /\ ~(Words(input[1]) = {} /\ Words(input[2]) = {}))
        => /\ output[1].den # 0
           /\ RatEq(output[1], Jaccard(Words(input[1]), Words(input[2])))

\* C6: calculateSimilarity is symmetric: the call with the texts in the
\* other order returns the same score.
C6_SimilaritySymmetric == Len(output) = 2 => RatEq(output[1], output[2])

\* Both orders were called on two texts of different word sets that share a
\* word.
C6_Witness ==
    /\ Len(output) = 2
    /\ Words(input[1]) # Words(input[2])
    /\ Words(input[1]) \cap Words(input[2]) # {}
    /\ output[1].num > 0

\* C2: every tag in the Tags section of a created note, whatever the
\* recognition path it came from, matches ^[a-z0-9]+(-[a-z0-9]+)*$ and is
\* longer than 3 characters.
C2_NoteTagsWellFormed ==
    \A r \in Runs :
        runs[r].pc = "done" =>
            \A i \in 1..Len(runs[r].formattedTags) :
                WellFormedTag(runs[r].formattedTags[i])

\* The number of words of a text: its non-empty whitespace-separated pieces.
WordCount(text) ==
    Len(SelectSeq(splitWhitespace(trim(text)), LAMBDA w : w # <<>>))

\* The attempt whose text processWithTesseract is to return: among the
\* successful ones, the earliest with the most words.
BestAttempt(page) ==
    CHOOSE i \in 1..3 :
        /\ page.ocr[i].ok
        /\ \A j \in 1..3 : page.ocr[j].ok =>
              \/ WordCount(page.ocr[j].text) < WordCount(page.ocr[i].text)
              \/ WordCount(page.ocr[j].text) = WordCount(page.ocr[i].text)
                     /\ i <= j

\* processWithTesseract returned to the run (all three modes were tried).
TesseractReturned(r) ==
    /\ runs[r].modeIndex = Len(psmModes)
    /\ runs[r].pc \notin {"setParameters", "recognize"}

\* C7: processWithTesseract returns the normalised text of the successful
\* attempt with the most words, the earliest one on a tie.
C7_BestOfThree ==
    \A r \in Runs :
        (TesseractReturned(r) /\ \E i \in 1..3 : runs[r].page.ocr[i].ok)
            => runs[r].extractedText =
                   cleanupText(trim(runs[r].page.ocr[BestAttempt(runs[r].page)].text))

SetupInProgress ==
    \E k \in Setups :
        setups[k].pc \in {"createWorker", "loadLanguage", "initialize",
                          "setParameters"}

\* The engine is Ready: a setupOCR call succeeded, none is in progress, and
\* onunload has not begun.
EngineReady == isInitialized /\ ~SetupInProgress /\ unload.pc = "idle"

\* C8: a local-mode run that reaches the engine while it is not Ready is
\* rejected, and no recognize job is submitted while it is not Ready.
C8_JobsOnlyWhenReady ==
    [][\A r \in Runs :
          /\ (runs[r].pc = "convertToBase64" /\ runs'[r].pc # "convertToBase64"
                /\ ~settings.useVisionForOcr /\ ~EngineReady)
                 => runs'[r].pc = "failed"
          /\ (runs[r].pc # "recognize" /\ runs'[r].pc = "recognize")
                 => EngineReady]_vars

\* C9: no worker and no scheduler is terminated while a recognize job is in
\* flight.
C9_NoTerminationInFlight ==
    [][(\E r \in Runs : runs[r].pc = "recognize")
          => /\ \A w \in Setups : workers'[w].state = "terminated"
                                     => workers[w].state = "terminated"
             /\ \A k \in Setups : schedulers'[k].state = "terminated"
                                     => schedulers[k].state = "terminated"]_vars

\* C10: when processImage fails, the source image still lies at its
\* original path.
C10_FailedRunKeepsImage ==
    \A r \in Runs : runs[r].pc = "failed" => Exists(runs[r].file)

\* C11: at most one processImage pipeline is in progress at any time: the
\* pipeline of an image created during another one's processing waits for it.
C11_OnePipelineAtATime ==
    Cardinality({ r \in Runs : InProgress(r) }) <= 1

\* The documents related to a text: those of the store's enumeration whose
\* similarity to it is more than 3/10.
RelatedTo(text) ==
    SelectSeq(MarkdownFiles,
              LAMBDA f : LET score == calculateSimilarity(text, f.content)
                         IN  10 * score.num > 3 * score.den)

\* findRelatedNotes returned to run r, and the documents it enumerated are
\* still stored.
FindRelatedReturned(r) ==
    /\ settings.enableAutoBacklinks
    /\ runs[r].pc \in {"deleteNote", "createNote"}
    /\ \A i \in 1..Len(runs[r].files) : Exists(runs[r].files[i])

UntitledNote == Chars("Untitled Note")

\* The note of a run that used the fixed title.
UntitledNotePath ==
    [folder |-> OutputFolder, basename |-> Chars("untitled-note"),
     extension |-> "md"]

\* C13: with a provider configured, a failed title request never makes
\* processImage fail: the run goes on with the title "Untitled Note" (or with
\* the trimmed answer of a request that succeeded) and, when it ends, it has
\* created the note under that title.
C13_TitleFailureFallsBack ==
    [][\A r \in Runs :
          /\ (runs[r].pc = "title" /\ runs'[r].pc # "title")
                => /\ runs'[r].pc # "failed"
                   /\ runs'[r].noteTitle \in
                          {UntitledNote}
                              \cup { trim(reply.body) :
                                       reply \in { q \in TitleReplies : q.ok } }
          /\ (runs[r].pc = "createNote" /\ runs'[r].pc = "done"
                 /\ runs[r].noteTitle = UntitledNote)
                => \E f \in vaultFiles' \ vaultFiles :
                      PathOf(f) = UntitledNotePath]_vars

\* A run whose title request failed created the note "untitled-note".
C13_Witness ==
    \E r \in Runs :
        /\ settings.llmProvider # "none"
        /\ runs[r].pc = "done"
        /\ runs[r].noteTitle = UntitledNote
        /\ Exists(UntitledNotePath)

\* The message of the check of processImage on the recognised text (line
\* 228), thrown after the recognition step returned.
EmptyTextError == "No text was extracted from the image"

AllAttemptsFailed(page) == \A i \in 1..Len(psmModes) : ~page.ocr[i].ok

\* C14: when all three recognize attempts fail, processWithTesseract throws:
\* the run fails, and not by the later check of processImage on a returned
\* text.
C14_AllAttemptsFailedThrows ==
    \A r \in Runs :
        (TesseractReturned(r) /\ AllAttemptsFailed(runs[r].page))
            => /\ runs[r].pc = "failed"
               /\ runs[r].error # EmptyTextError

\* The positions of a run inside its recognition step.
RecognitionPcs == {"setParameters", "recognize", "vision"}

\* The positions at which a run awaits an operation that changes the store.
StorePcs == {"createFolder", "deleteExisting", "rename", "deleteNote",
             "createNote"}

\* C15: a run whose recognised text is empty after trimming fails when the
\* recognition step ends, and it has changed nothing in the store: the step
\* leaves the store as it is, and a run changes the store only at the later
\* positions (folder creation, image move, note deletion and creation).
C15_EmptyTextFailsUnmutated ==
    [][/\ \A r \in Runs :
            (/\ runs[r].pc \in RecognitionPcs
             /\ runs'[r].pc \notin RecognitionPcs
             /\ trim(runs'[r].extractedText) = <<>>)
                => /\ runs'[r].pc = "failed"
                   /\ ~runs'[r].moved
                   /\ UNCHANGED vaultVars
       /\ (vaultVars' # vaultVars)
            => \/ \E r \in Runs : runs[r].pc \in StorePcs
               \/ \E f \in vaultFiles' :
                     /\ f.extension \in ImageExtensions
                     /\ vaultFiles' = vaultFiles \cup {f}
                     /\ UNCHANGED vaultFolders]_vars

\* A run failed on an empty recognised text; its image lies where it was
\* created.
C15_Witness ==
    \E r \in Runs :
        /\ runs[r].pc = "failed"
        /\ runs[r].error = EmptyTextError
        /\ trim(runs[r].extractedText) = <<>>
        /\ Exists(runs[r].file)

NoProviderError == "Vision OCR selected but no LLM provider configured"

BlocksWith(blocks, prefix) ==
    { i \in 1..Len(blocks) : blocks[i].prefix = Chars(prefix) }

\* The items of a TAGS: block as tags: lowercased, trimmed, no empty one.
TagsOf(block) ==
    SelectSeq([i \in 1..Len(block.items) |-> toLowerCase(trim(block.items[i]))],
              LAMBDA tag : tag # <<>>)

\* A response of one TEXT:, one TAGS: and one SUMMARY: block, in any order.
ThreeSections(blocks) ==
    /\ Len(blocks) = 3
    /\ \A prefix \in {"TEXT:", "TAGS:", "SUMMARY:"} :
          Cardinality(BlocksWith(blocks, prefix)) = 1

\* C17: for a response of a TEXT:, a TAGS: and a SUMMARY: block separated by
\* blank lines, parseLLMResponse returns the trimmed TEXT body, the TAGS
\* items lowercased and trimmed, in order, without the empty ones, and the
\* trimmed SUMMARY body; the confidence is 0.9 for every response.
C17_ParsesThreeSections ==
    output # <<>> =>
        /\ output[1].confidence = 9
        /\ ThreeSections(input[1]) =>
              LET blocks == input[1]
                  at(prefix) == blocks[CHOOSE i \in BlocksWith(blocks, prefix) : TRUE]
              IN  /\ output[1].text = trim(at("TEXT:").items[1])
                  /\ output[1].hasTags
                  /\ output[1].tags = TagsOf(at("TAGS:"))
                  /\ output[1].summary = trim(at("SUMMARY:").items[1])

\* A three-section response was parsed whose TAGS: block holds an empty item
\* and an item in capitals, and which gave three tags.
C17_Witness ==
    /\ output # <<>>
    /\ ThreeSections(input[1])
    /\ Len(output[1].tags) = 3
    /\ \E i \in BlocksWith(input[1], "TAGS:") :
          /\ \E k \in 1..Len(input[1][i].items) : input[1][i].items[k] = <<>>
          /\ \E k \in 1..Len(input[1][i].items) :
                toLowerCase(input[1][i].items[k]) # input[1][i].items[k]

\* C18: of several blocks with the same prefix parseLLMResponse takes the
\* first and ignores the later ones, and a block that starts with none of the
\* three prefixes does not affect the result.
C18_FirstBlockWins ==
    output # <<>> =>
        LET blocks == input[1]
            first(prefix) == blocks[Min(BlocksWith(blocks, prefix))]
            has(prefix) == BlocksWith(blocks, prefix) # {}
        IN  /\ output[1].text = IF has("TEXT:")
                                THEN trim(first("TEXT:").items[1]) ELSE <<>>
            /\ output[1].hasTags = has("TAGS:")
            /\ output[1].tags = IF has("TAGS:")
                                THEN TagsOf(first("TAGS:")) ELSE <<>>
            /\ output[1].summary = IF has("SUMMARY:")
                                   THEN trim(first("SUMMARY:").items[1])
                                   ELSE <<>>

\* C19: a failure of the image relocation (the deletion of a file at the
\* destination, or the rename) makes processImage fail: a run goes on to the
\* related notes and the note only with its image relocated, and the image a
\* created note links to lies at the linked path.
C19_RelocationFailureFails ==
    \A r \in Runs :
        /\ runs[r].pc \in {"readNote", "deleteNote", "createNote", "done"}
              => runs[r].moved
        /\ runs[r].pc = "done" => Exists(NewImagePath(runs[r]))

\* C20: when the recognition step gives no LLM-provided tags, the tags of
\* the created note are the ones generateTags derives from the recognised
\* text.
C20_TagsFromExtractor ==
    \A r \in Runs :
        (runs[r].pc = "done" /\ ~runs[r].hasTags)
            => runs[r].formattedTags = generateTags(runs[r].extractedText)

\* C21: no tag generateTags returns is a single word of the stopword list
\* of isCommonWord: such a candidate is discarded and the bare-word pass
\* does not bring it back.
C21_NoStopwordTag ==
    output # <<>> => \A i \in 1..Len(output[1]) : ~isCommonWord(output[1][i])

\* C22: over the plugin's lifetime at most one worker and at most one
\* scheduler are created, and every recognize job is submitted to that
\* scheduler and runs on that worker.
C22_OneEngineEver ==
    /\ Cardinality({ k \in Setups : workers[k].state # "absent" }) <= 1
    /\ Cardinality({ k \in Setups : schedulers[k].state # "absent" }) <= 1
    /\ \A r \in Runs : runs[r].pc = "recognize" => runs[r].job = 1

\* C23: the Tags section of a created note holds no tag twice, whatever the
\* recognition path the tags came from.
C23_NoteTagsDistinct ==
    \A r \in Runs :
        runs[r].pc = "done" =>
            \A i, j \in 1..Len(runs[r].formattedTags) :
                i # j => runs[r].formattedTags[i] # runs[r].formattedTags[j]

\* C24: after a run that succeeds the image lies in the image folder under
\* its file name, wherever it was created: the run does not leave the image
\* at neither its original path nor that destination.
C24_ImageSurvivesSuccess ==
    \A r \in Runs :
        runs[r].pc = "done" =>
            /\ Exists(runs[r].file) \/ Exists(NewImagePath(runs[r]))
            /\ Exists(NewImagePath(runs[r]))

\* C25: when processImage fails, the documents that existed before the run
\* are as they were: a run that removed the note at its derived path (the
\* only change a run makes to an existing document) creates the new note in
\* its place and does not fail.
C25_FailedRunKeepsDocuments ==
    \A r \in Runs : runs[r].pc = "failed" => ~runs[r].deletedNote

\* C26: with two runs on the shared worker, a recognize job that is about to
\* execute finds the worker under the page-segmentation mode its own run set
\* for this attempt.
C26_RecognizeUnderOwnMode ==
    \A r \in Runs :
        (/\ runs[r].pc = "recognize"
         /\ runs[r].target # 0
         /\ Live(runs[r].target))
            => workers[runs[r].target].psm = psmModes[runs[r].modeIndex]

\* C27: no run fails at vault.create because a document already lies at the
\* derived note path, also while another run derives the same path.
C27_CreateNeverFindsDocument ==
    \A r \in Runs : runs[r].error # "File already exists"

\* C28: if one of the three attempts succeeded with a non-empty trimmed
\* text, the raw text processWithTesseract retains is not empty.
C28_NonEmptyAttemptRetained ==
    \A r \in Runs :
        (/\ TesseractReturned(r)
         /\ \E i \in 1..Len(psmModes) :
               /\ runs[r].page.ocr[i].ok
               /\ trim(runs[r].page.ocr[i].text) # <<>>)
            => runs[r].bestResult # <<>>

\* C29: the Related Notes of a created note do not list the note itself: a
\* base name that is listed is the base name of a scanned document other
\* than the one at the derived note path.
C29_NoSelfReference ==
    \A r \in Runs : runs[r].pc = "done" =>
        \A i \in 1..Len(runs[r].relatedNotes) :
            \E j \in 1..Len(runs[r].files) :
                /\ runs[r].files[j].basename = runs[r].relatedNotes[i]
                /\ runs[r].files[j] # NotePath(runs[r])

\* The image files a step creates in the vault: the step adds them and
\* removes no file (the move of an image is a rename, not a creation).
CreatedImages ==
    IF vaultFiles \subseteq vaultFiles'
    THEN { f \in vaultFiles' \ vaultFiles : f.extension \in ImageExtensions }
    ELSE {}

\* C30: a processImage run starts only in a step that creates an image file,
\* for that file, and one run per created image; the folder creation, the
\* move, the deletions and the creation of the note start none; a run that
\* ended stays ended; and every run that started ends.
C30_OnlyImageCreationTriggers ==
    /\ [][/\ \A r \in Runs :
               /\ (runs[r].pc # "readBinary" /\ runs'[r].pc = "readBinary")
                     => /\ runs[r].pc = "idle"
                        /\ \E f \in CreatedImages : PathOf(f) = runs'[r].file
               /\ runs[r].pc = "idle" => runs'[r].pc \in {"idle", "readBinary"}
               /\ runs[r].pc \in {"done", "failed"} => runs'[r] = runs[r]
          /\ Cardinality({ r \in Runs : runs[r].pc = "idle"
                                          /\ runs'[r].pc # "idle" })
                = Cardinality(CreatedImages)]_vars
    /\ \A r \in Runs :
          (runs[r].pc = "readBinary") ~> (runs[r].pc \in {"done", "failed"})

\* One run ended with its note stored and its image moved, next to a
\* document that is no image, and no other run started.
C30_Witness ==
    \E r \in Runs :
        /\ runs[r].pc = "done"
        /\ runs[r].moved
        /\ Exists(NotePath(runs[r]))
        /\ \E f \in vaultFiles : f.basename = Chars("memo")
        /\ \A q \in Runs \ {r} : runs[q].pc = "idle"

====
